---- MODULE Spec2Model ----
(***************************************************************************)
(* Cohen-Sutherland line clipping (src/src/main.rs) as a state machine.    *)
(*                                                                         *)
(* The program computes on f64.  The coordinates are modelled as IEEE-754  *)
(* binary64 values with the operations the source applies to them          *)
(* (+, -, *, /, <, >), each rounded to nearest, ties to even, with signed  *)
(* zeros, subnormals, overflow to infinity and NaN.  A finite value is     *)
(* (-1)^s * m * 2^e with m an odd natural number (or zero), m held as a    *)
(* little-endian sequence of 15-bit limbs because the model checker's      *)
(* integers are 32 bits wide.                                              *)
(***************************************************************************)
EXTENDS Integers, Sequences, FiniteSets, TLC

(***************************************************************************)
(* Natural numbers of any size: little-endian limbs, no leading zero limb. *)
(***************************************************************************)
LimbBits == 15
Limb == 2^LimbBits

RECURSIVE NatOfInt(_)
NatOfInt(n) == IF n = 0 THEN <<>> ELSE <<n % Limb>> \o NatOfInt(n \div Limb)

\* a without its leading zero limbs
NatTrim(a) ==
    SubSeq(a, 1, CHOOSE n \in 0..Len(a) :
                     (n = 0 \/ a[n] # 0) /\ \A j \in (n + 1)..Len(a) : a[j] = 0)

IntMax(i, j) == IF i >= j THEN i ELSE j

\* limb i of a, zero past its length
NatLimb(a, i) == IF i <= Len(a) THEN a[i] ELSE 0

\* the carry into limb i of the limb sums s: a limb that overflows, and only
\* full limbs between it and i
NatCarry(s, i) ==
    \E j \in 1..(i - 1) : s[j] >= Limb /\ \A h \in (j + 1)..(i - 1) : s[h] = Limb - 1

NatCarried(s) ==
    NatTrim([i \in 1..(Len(s) + 1) |->
                (NatLimb(s, i) + (IF NatCarry(s, i) THEN 1 ELSE 0)) % Limb])

NatAdd(a, b) == NatCarried([i \in 1..IntMax(Len(a), Len(b)) |-> NatLimb(a, i) + NatLimb(b, i)])

\* the borrow from limb i of the limb differences d: a negative limb, and
\* only zero limbs between it and i
NatBorrow(d, i) ==
    \E j \in 1..(i - 1) : d[j] < 0 /\ \A h \in (j + 1)..(i - 1) : d[h] = 0

NatBorrowed(d) ==
    NatTrim([i \in 1..Len(d) |-> (d[i] - (IF NatBorrow(d, i) THEN 1 ELSE 0) + Limb) % Limb])

\* a - b for a >= b
NatSub(a, b) == NatBorrowed([i \in 1..Len(a) |-> a[i] - NatLimb(b, i)])

\* -1, 0, 1 as a < b, a = b, a > b: by the most significant limb that differs
NatCmpAt(a, b, i) ==
    IF \A j \in 1..i : a[j] = b[j] THEN 0
    ELSE IF \E j \in 1..i : a[j] < b[j] /\ \A h \in (j + 1)..i : a[h] = b[h] THEN -1
    ELSE 1

NatCmp(a, b) ==
    IF Len(a) < Len(b) THEN -1
    ELSE IF Len(a) > Len(b) THEN 1
    ELSE NatCmpAt(a, b, Len(a))

\* a * k for 0 <= k < Limb: the low halves of the limb products plus the
\* high halves one limb up
NatMulSmall(a, k) ==
    NatAdd([i \in 1..Len(a) |-> (a[i] * k) % Limb],
           <<0>> \o [i \in 1..Len(a) |-> (a[i] * k) \div Limb])

NatShiftLimbs(a, q) == IF a = <<>> THEN a ELSE [i \in 1..q |-> 0] \o a

\* a * b, by halves of b
RECURSIVE NatMul(_, _)
NatMulHalves(a, b, h) ==
    NatAdd(NatMul(a, SubSeq(b, 1, h)), NatShiftLimbs(NatMul(a, SubSeq(b, h + 1, Len(b))), h))

NatMul(a, b) ==
    IF a = <<>> \/ b = <<>> THEN <<>>
    ELSE IF Len(b) = 1 THEN NatMulSmall(a, b[1])
    ELSE NatMulHalves(a, b, Len(b) \div 2)

\* a * 2^k for 0 <= k < LimbBits
NatShlBits(a, k) ==
    IF k = 0 THEN a
    ELSE NatTrim([i \in 1..(Len(a) + 1) |->
                     (IF i <= Len(a) THEN (a[i] * 2^k) % Limb ELSE 0)
                     + (IF i > 1 THEN a[i - 1] \div 2^(LimbBits - k) ELSE 0)])

\* a * 2^n
NatShl(a, n) == NatShiftLimbs(NatShlBits(a, n % LimbBits), n \div LimbBits)

PutDigit(rest, digit) == <<Append(rest[1], digit), rest[2]>>

\* <<a \div d, a % d>> for 0 < d < Limb, from the most significant limb down
RECURSIVE NatDivSmallAt(_, _, _, _)
NatDivSmallAt(a, d, i, r) ==
    IF i = 0 THEN <<<<>>, r>>
    ELSE PutDigit(NatDivSmallAt(a, d, i - 1, (r * Limb + a[i]) % d),
                  (r * Limb + a[i]) \div d)

TrimQuot(qr) == <<NatTrim(qr[1]), qr[2]>>

NatDivSmall(a, d) == TrimQuot(NatDivSmallAt(a, d, Len(a), 0))

\* floor(a / 2^k) for 0 <= k < LimbBits
NatShrBits(a, k) ==
    IF k = 0 THEN a
    ELSE NatTrim([i \in 1..Len(a) |->
                     a[i] \div 2^k
                     + (IF i < Len(a) THEN (a[i + 1] % 2^k) * 2^(LimbBits - k) ELSE 0)])

\* floor(a / 2^n)
NatShr(a, n) ==
    IF n \div LimbBits >= Len(a) THEN <<>>
    ELSE NatShrBits(SubSeq(a, n \div LimbBits + 1, Len(a)), n % LimbBits)

RECURSIVE IntBitLen(_)
IntBitLen(n) == IF n = 0 THEN 0 ELSE 1 + IntBitLen(n \div 2)

NatBitLen(a) ==
    IF a = <<>> THEN 0 ELSE LimbBits * (Len(a) - 1) + IntBitLen(a[Len(a)])

\* bit i of a, bit 0 the least significant
NatBit(a, i) ==
    LET q == i \div LimbBits
    IN  IF i < 0 \/ q >= Len(a) THEN 0
        ELSE (a[q + 1] \div 2^(i % LimbBits)) % 2

\* some bit among the n least significant bits of a is set
NatLowBits(a, n) ==
    LET q == n \div LimbBits
    IN  \/ \E i \in 1..(IF q < Len(a) THEN q ELSE Len(a)) : a[i] # 0
        \/ q < Len(a) /\ a[q + 1] % 2^(n % LimbBits) # 0

RECURSIVE IntTrailingZeros(_)
IntTrailingZeros(n) == IF n % 2 = 1 THEN 0 ELSE 1 + IntTrailingZeros(n \div 2)

\* the number of trailing zero bits of a # 0
NatLowLimb(a) == CHOOSE n \in 1..Len(a) : a[n] # 0 /\ \A j \in 1..(n - 1) : a[j] = 0

NatTrailingZerosAt(a, n) == LimbBits * (n - 1) + IntTrailingZeros(a[n])

NatTrailingZeros(a) == NatTrailingZerosAt(a, NatLowLimb(a))

\* floor(cur / d) for cur < d * Limb, the top limb of d at least Limb / 2:
\* the estimate from the leading limbs is at most 2 too large (Knuth 4.3.1 B)
QuotEstimate(cur, d) ==
    LET n == Len(d)
        top == (IF Len(cur) > n THEN cur[n + 1] ELSE 0) * Limb + cur[n]
        hat == top \div d[n]
    IN  IF hat >= Limb THEN Limb - 1 ELSE hat

\* the largest of est, est - 1, est - 2 whose product with d is at most cur
RECURSIVE QuotAdjust(_, _, _, _)
QuotAdjust(cur, d, est, tries) ==
    IF tries = 0 \/ NatCmp(NatMulSmall(d, est), cur) <= 0 THEN est
    ELSE QuotAdjust(cur, d, est - 1, tries - 1)

QuotDigit(cur, d) ==
    IF NatCmp(cur, d) < 0 THEN 0 ELSE QuotAdjust(cur, d, QuotEstimate(cur, d), 2)

\* long division of n by d, limb i of n and below still to bring down
RECURSIVE NatDivLongAt(_, _, _, _)
NatDivLongDigit(n, d, i, cur, digit) ==
    PutDigit(NatDivLongAt(n, d, i - 1, NatSub(cur, NatMulSmall(d, digit))), digit)

NatDivLongCur(n, d, i, cur) == NatDivLongDigit(n, d, i, cur, QuotDigit(cur, d))

NatDivLongAt(n, d, i, r) ==
    IF i = 0 THEN <<<<>>, r>> ELSE NatDivLongCur(n, d, i, NatTrim(<<n[i]>> \o r))

NatDivLong(n, d) == NatDivLongAt(n, d, Len(n), <<>>)

TrimShr(qr, s) == <<NatTrim(qr[1]), NatShr(qr[2], s)>>
SmallRem(qr) == <<qr[1], NatOfInt(qr[2])>>

\* <<floor(n / d), n % d>> for d # 0
NatDivMod(n, d) ==
    IF Len(d) = 1 THEN SmallRem(NatDivSmall(n, d[1]))
    ELSE TrimShr(NatDivLong(NatShl(n, LimbBits - IntBitLen(d[Len(d)])),
                            NatShl(d, LimbBits - IntBitLen(d[Len(d)]))),
                 LimbBits - IntBitLen(d[Len(d)]))

(***************************************************************************)
(* f64: IEEE-754 binary64.  A value is a record [k, s, m, e]: kind k is    *)
(* "fin", "inf" or "nan"; s is the sign bit; a finite value is             *)
(* (-1)^s * m * 2^e with m odd, or m = <<>> and e = 0 for a zero.          *)
(***************************************************************************)
Precision == 53
MinExp == -1074
MaxExp == 1024

NaN == [k |-> "nan", s |-> 0, m |-> <<>>, e |-> 0]
Inf(s) == [k |-> "inf", s |-> s, m |-> <<>>, e |-> 0]
Zero(s) == [k |-> "fin", s |-> s, m |-> <<>>, e |-> 0]

IsNaN(a) == a.k = "nan"
IsInf(a) == a.k = "inf"
IsFinite(a) == a.k = "fin"
IsZero(a) == a.k = "fin" /\ a.m = <<>>

Xor(s, t) == (s + t) % 2

\* the f64 of value (-1)^s * m * 2^e, exactly representable: odd significand
CanonAt(s, m, e, t) == [k |-> "fin", s |-> s, m |-> NatShr(m, t), e |-> e + t]
Canon(s, m, e) == IF m = <<>> THEN Zero(s) ELSE CanonAt(s, m, e, NatTrailingZeros(m))

\* infinity past the largest finite value
Pack(s, m, e) == IF NatBitLen(m) + e > MaxExp THEN Inf(s) ELSE Canon(s, m, e)

\* q or q + 1: to nearest, ties to even
RoundQuot(s, q, e, half, rest) ==
    Pack(s, IF half /\ (rest \/ NatBit(q, 0) = 1) THEN NatAdd(q, <<1>>) ELSE q, e)

RoundShift(s, m, e, sticky, shift) ==
    IF shift <= 0 THEN Pack(s, m, e)
    ELSE RoundQuot(s, NatShr(m, shift), e + shift,
                   NatBit(m, shift - 1) = 1, sticky \/ NatLowBits(m, shift - 1))

\* The f64 nearest to (-1)^s * (m + f) * 2^e, ties to even, where 0 <= f < 1
\* and f > 0 exactly when sticky: at most Precision bits, no bit below MinExp.
RoundPack(s, m, e, sticky) ==
    IF m = <<>> THEN Zero(s)
    ELSE RoundShift(s, m, e, sticky, IntMax(NatBitLen(m) - Precision, MinExp - e))

FNeg(a) == IF IsNaN(a) THEN a ELSE [a EXCEPT !.s = 1 - a.s]

\* |a| compared with |b| for finite nonzero a, b: -1, 0, 1
MagCmpAt(a, b, e) == NatCmp(NatShl(a.m, a.e - e), NatShl(b.m, b.e - e))

MagCmp(a, b) ==
    IF NatBitLen(a.m) + a.e < NatBitLen(b.m) + b.e THEN -1
    ELSE IF NatBitLen(a.m) + a.e > NatBitLen(b.m) + b.e THEN 1
    ELSE MagCmpAt(a, b, IF a.e <= b.e THEN a.e ELSE b.e)

\* x * 2^e + y * 2^e with signs sa, sb, c the order of x and y; +0 when they cancel
AddOrdered(sa, sb, x, y, e, c) ==
    RoundPack(IF sa = sb THEN sa ELSE IF c = 0 THEN 0 ELSE IF c > 0 THEN sa ELSE sb,
              IF sa = sb THEN NatAdd(x, y) ELSE IF c >= 0 THEN NatSub(x, y) ELSE NatSub(y, x),
              e, FALSE)

AddAligned(sa, sb, x, y, e) == AddOrdered(sa, sb, x, y, e, NatCmp(x, y))

AddAt(a, b, e) == AddAligned(a.s, b.s, NatShl(a.m, a.e - e), NatShl(b.m, b.e - e), e)

\* a + b; an operand below a quarter of the other's last place changes nothing
FAdd(a, b) ==
    IF IsNaN(a) \/ IsNaN(b) THEN NaN
    ELSE IF IsInf(a) THEN (IF IsInf(b) /\ a.s # b.s THEN NaN ELSE a)
    ELSE IF IsInf(b) THEN b
    ELSE IF IsZero(a) /\ IsZero(b) THEN Zero(IF a.s = b.s THEN a.s ELSE 0)
    ELSE IF IsZero(a) THEN b
    ELSE IF IsZero(b) THEN a
    ELSE IF NatBitLen(a.m) + a.e > NatBitLen(b.m) + b.e + Precision + 2 THEN a
    ELSE IF NatBitLen(b.m) + b.e > NatBitLen(a.m) + a.e + Precision + 2 THEN b
    ELSE AddAt(a, b, IF a.e <= b.e THEN a.e ELSE b.e)

\* a - b
FSub(a, b) == FAdd(a, FNeg(b))

\* a * b
FMul(a, b) ==
    IF IsNaN(a) \/ IsNaN(b) THEN NaN
    ELSE IF IsInf(a) \/ IsInf(b)
         THEN (IF IsZero(a) \/ IsZero(b) THEN NaN ELSE Inf(Xor(a.s, b.s)))
    ELSE IF IsZero(a) \/ IsZero(b) THEN Zero(Xor(a.s, b.s))
    ELSE RoundPack(Xor(a.s, b.s), NatMul(a.m, b.m), a.e + b.e, FALSE)

\* the quotient to Precision + 3 bits or more, the remainder as the sticky bit
DivRound(s, qr, e) == RoundPack(s, qr[1], e, qr[2] # <<>>)

DivAt(a, b, k) == DivRound(Xor(a.s, b.s), NatDivMod(NatShl(a.m, k), b.m), a.e - b.e - k)

\* a / b
FDiv(a, b) ==
    IF IsNaN(a) \/ IsNaN(b) THEN NaN
    ELSE IF IsInf(a) THEN (IF IsInf(b) THEN NaN ELSE Inf(Xor(a.s, b.s)))
    ELSE IF IsInf(b) THEN Zero(Xor(a.s, b.s))
    ELSE IF IsZero(b) THEN (IF IsZero(a) THEN NaN ELSE Inf(Xor(a.s, b.s)))
    ELSE IF IsZero(a) THEN Zero(Xor(a.s, b.s))
    ELSE DivAt(a, b, IntMax(0, Precision + 3 + NatBitLen(b.m) - NatBitLen(a.m)))

\* a < b
FLt(a, b) ==
    IF IsNaN(a) \/ IsNaN(b) THEN FALSE
    ELSE IF IsZero(a) /\ IsZero(b) THEN FALSE
    ELSE IF a.s # b.s THEN a.s = 1
    ELSE IF IsInf(a) THEN a.s = 1 /\ ~IsInf(b)
    ELSE IF IsInf(b) THEN b.s = 0
    ELSE IF IsZero(a) THEN b.s = 0
    ELSE IF IsZero(b) THEN a.s = 1
    ELSE MagCmp(a, b) = (IF a.s = 0 THEN -1 ELSE 1)

\* a > b
FGt(a, b) == FLt(b, a)

\* a == b
FEq(a, b) ==
    IF IsNaN(a) \/ IsNaN(b) THEN FALSE
    ELSE IF IsZero(a) \/ IsZero(b) THEN IsZero(a) /\ IsZero(b)
    ELSE a = b

\* a <= b
FLe(a, b) == FLt(a, b) \/ FEq(a, b)

\* the f64 of the integer literal n (as in "100.0"), |n| < 2^31
F(n) == IF n >= 0 THEN Canon(0, NatOfInt(n), 0) ELSE Canon(1, NatOfInt(-n), 0)

\* n * 2^j as an f64, exact within range
Scale(v, j) == IF IsZero(v) THEN v ELSE [v EXCEPT !.e = v.e + j]
FScaled(n, j) == Scale(F(n), j)

(***************************************************************************)
(* Data structures and region codes.                                       *)
(***************************************************************************)
Point(x, y) == [x |-> x, y |-> y]
Rectangle(x_min, y_min, x_max, y_max) ==
    [x_min |-> x_min, y_min |-> y_min, x_max |-> x_max, y_max |-> y_max]
Line(p1, p2) == [p1 |-> p1, p2 |-> p2]

INSIDE == 0
LEFT == 1
RIGHT == 2
BOTTOM == 4
TOP == 8

\* a | b and a & b on u8
RECURSIVE BitOr(_, _)
BitOr(a, b) ==
    IF a = 0 THEN b
    ELSE IF b = 0 THEN a
    ELSE (IF a % 2 = 1 \/ b % 2 = 1 THEN 1 ELSE 0) + 2 * BitOr(a \div 2, b \div 2)

RECURSIVE BitAnd(_, _)
BitAnd(a, b) ==
    IF a = 0 \/ b = 0 THEN 0
    ELSE (IF a % 2 = 1 /\ b % 2 = 1 THEN 1 ELSE 0) + 2 * BitAnd(a \div 2, b \div 2)

\* Option<Line>
None == [tag |-> "None"]
Some(l) == [tag |-> "Some", line |-> l]

(***************************************************************************)
(* compute_outcode                                                         *)
(***************************************************************************)
\* OutcodeX with the left boundary itself counted as outside
OutcodeXLeftExclusive(p, w, code) ==
    IF FLe(p.x, w.x_min) THEN BitOr(code, LEFT)
    ELSE IF FGt(p.x, w.x_max) THEN BitOr(code, RIGHT)
    ELSE code

\* the first if/else-if: code |= LEFT or code |= RIGHT
OutcodeX(p, w, code) ==
    IF FLt(p.x, w.x_min) THEN BitOr(code, LEFT)
    ELSE IF FGt(p.x, w.x_max) THEN BitOr(code, RIGHT)
    ELSE code

\* OutcodeY with the top boundary itself counted as outside
OutcodeYTopExclusive(p, w, code) ==
    IF FLt(p.y, w.y_min) THEN BitOr(code, BOTTOM)
    ELSE IF FLe(w.y_max, p.y) THEN BitOr(code, TOP)
    ELSE code

\* the second if/else-if: code |= BOTTOM or code |= TOP
OutcodeY(p, w, code) ==
    IF FLt(p.y, w.y_min) THEN BitOr(code, BOTTOM)
    ELSE IF FGt(p.y, w.y_max) THEN BitOr(code, TOP)
    ELSE code

compute_outcode(p, w) == OutcodeY(p, w, OutcodeX(p, w, INSIDE))

(***************************************************************************)
(* cohen_sutherland_clip: the locals of one call.  A loop state is the     *)
(* record [line, outcode1, outcode2].                                      *)
(***************************************************************************)
Entry(l, w) ==
    [line |-> l,
     outcode1 |-> compute_outcode(l.p1, w),
     outcode2 |-> compute_outcode(l.p2, w)]

IsTrivialAccept(st) == BitOr(st.outcode1, st.outcode2) = INSIDE

\* IsTrivialReject only when the two endpoints are in the very same region
IsTrivialRejectSameRegion(st) == ~IsTrivialAccept(st) /\ st.outcode1 = st.outcode2

IsTrivialReject(st) == ~IsTrivialAccept(st) /\ BitAnd(st.outcode1, st.outcode2) # INSIDE
IsPotentialClip(st) == ~IsTrivialAccept(st) /\ ~IsTrivialReject(st)

\* OutcodeToClip preferring endpoint 2: outcode2 when it is outside
OutcodeToClipSecondFirst(st) == IF st.outcode2 # INSIDE THEN st.outcode2 ELSE st.outcode1

\* the endpoint picked: outcode1 when it is outside, otherwise outcode2
OutcodeToClip(st) == IF st.outcode1 # INSIDE THEN st.outcode1 ELSE st.outcode2

\* the boundary the step clips against: the first set bit in the if-chain's order
ClipBoundary(code) ==
    IF BitAnd(code, TOP) # 0 THEN TOP
    ELSE IF BitAnd(code, BOTTOM) # 0 THEN BOTTOM
    ELSE IF BitAnd(code, RIGHT) # 0 THEN RIGHT
    ELSE IF BitAnd(code, LEFT) # 0 THEN LEFT
    ELSE INSIDE

Dx(l) == FSub(l.p2.x, l.p1.x)
Dy(l) == FSub(l.p2.y, l.p1.y)

\* from + run * (bound - at) / rise
Interpolate(from, run, bound, at, rise) ==
    FAdd(from, FDiv(FMul(run, FSub(bound, at)), rise))

\* IntersectionWith clipping to the opposite boundary: y_min for TOP, y_max
\* for BOTTOM, x_min for RIGHT, x_max for LEFT
IntersectionWithOpposite(l, w, code, dx, dy) ==
    IF BitAnd(code, TOP) # 0
    THEN Point(Interpolate(l.p1.x, dx, w.y_min, l.p1.y, dy), w.y_min)
    ELSE IF BitAnd(code, BOTTOM) # 0
    THEN Point(Interpolate(l.p1.x, dx, w.y_max, l.p1.y, dy), w.y_max)
    ELSE IF BitAnd(code, RIGHT) # 0
    THEN Point(w.x_min, Interpolate(l.p1.y, dy, w.x_min, l.p1.x, dx))
    ELSE IF BitAnd(code, LEFT) # 0
    THEN Point(w.x_max, Interpolate(l.p1.y, dy, w.x_max, l.p1.x, dx))
    ELSE Point(F(0), F(0))

\* the intersection point new_p of the line with the boundary of the picked bit
IntersectionWith(l, w, code, dx, dy) ==
    IF BitAnd(code, TOP) # 0
    THEN Point(Interpolate(l.p1.x, dx, w.y_max, l.p1.y, dy), w.y_max)
    ELSE IF BitAnd(code, BOTTOM) # 0
    THEN Point(Interpolate(l.p1.x, dx, w.y_min, l.p1.y, dy), w.y_min)
    ELSE IF BitAnd(code, RIGHT) # 0
    THEN Point(w.x_max, Interpolate(l.p1.y, dy, w.x_max, l.p1.x, dx))
    ELSE IF BitAnd(code, LEFT) # 0
    THEN Point(w.x_min, Interpolate(l.p1.y, dy, w.x_min, l.p1.x, dx))
    ELSE Point(F(0), F(0))

Intersection(l, w, code) == IntersectionWith(l, w, code, Dx(l), Dy(l))

\* Replace writing the endpoint that was not picked
ReplaceOther(st, outcode_to_clip, new_p, new_code) ==
    IF outcode_to_clip = st.outcode1
    THEN [line |-> [st.line EXCEPT !.p2 = new_p],
          outcode1 |-> st.outcode1,
          outcode2 |-> new_code]
    ELSE [line |-> [st.line EXCEPT !.p1 = new_p],
          outcode1 |-> new_code,
          outcode2 |-> st.outcode2]

\* the replacement of the picked endpoint by new_p and its re-classification
Replace(st, outcode_to_clip, new_p, new_code) ==
    IF outcode_to_clip = st.outcode1
    THEN [line |-> [st.line EXCEPT !.p1 = new_p],
          outcode1 |-> new_code,
          outcode2 |-> st.outcode2]
    ELSE [line |-> [st.line EXCEPT !.p2 = new_p],
          outcode1 |-> st.outcode1,
          outcode2 |-> new_code]

ReplaceBy(st, w, new_p) == Replace(st, OutcodeToClip(st), new_p, compute_outcode(new_p, w))

\* one pass through the else branch of the loop
ClipStep(st, w) == ReplaceBy(st, w, Intersection(st.line, w, OutcodeToClip(st)))

\* The value of the call cohen_sutherland_clip(l, &w): Some(line), None, or
\* Running when the loop has not returned within fuel passes.
Running == [tag |-> "Running"]

RECURSIVE Loop(_, _, _)
Loop(st, w, fuel) ==
    IF IsTrivialAccept(st) THEN Some(st.line)
    ELSE IF IsTrivialReject(st) THEN None
    ELSE IF fuel = 0 THEN Running
    ELSE Loop(ClipStep(st, w), w, fuel - 1)

cohen_sutherland_clip(l, w, fuel) == Loop(Entry(l, w), w, fuel)

(***************************************************************************)
(* The calls explored.  A call is a record [line, window].                 *)
(***************************************************************************)
Call(x1, y1, x2, y2, w) == [line |-> Line(Point(x1, y1), Point(x2, y2)), window |-> w]

\* segments with both endpoints on the integer grid 0..GridMax, against a
\* window with an interior grid point and a window of zero width
GridMax == 4

\* the count of refinement steps stops here
MaxSteps == 6

GridCoords == {F(i) : i \in 0..GridMax}
GridWindows == {Rectangle(F(1), F(1), F(3), F(3)), Rectangle(F(2), F(1), F(2), F(3))}
GridCalls ==
    {Call(x1, y1, x2, y2, w) : x1 \in GridCoords, y1 \in GridCoords,
                               x2 \in GridCoords, y2 \in GridCoords, w \in GridWindows}

\* the window and the seven test lines of main
MainWindow == Rectangle(F(100), F(100), F(200), F(200))
MainCalls ==
    {Call(F(110), F(110), F(190), F(190), MainWindow),
     Call(F(210), F(110), F(250), F(190), MainWindow),
     Call(F(50), F(250), F(250), F(250), MainWindow),
     Call(F(50), F(50), F(250), F(250), MainWindow),
     Call(F(50), F(150), F(250), F(150), MainWindow),
     Call(F(150), F(50), F(150), F(250), MainWindow),
     Call(F(150), F(150), F(250), F(250), MainWindow)}

\* a segment leaving through a window corner; a segment whose extent
\* overflows f64; a segment crossing the window within one unit in the last
\* place of a corner
CornerCall == Call(F(-14), F(4), F(13), F(-11), Rectangle(F(-10), F(-6), F(4), F(0)))
HugeCall ==
    Call(FScaled(-1, 1023), FScaled(-1, 1023), FScaled(1, 1023), FScaled(1, 1023),
         Rectangle(F(0), F(0), F(1), F(1)))
SliverCall ==
    Call(F(3), F(4), FSub(F(1), FScaled(1, -52)), FAdd(F(-2), FScaled(1, -52)),
         Rectangle(F(1), F(1), F(2), F(2)))
EdgeCalls == {CornerCall, HugeCall, SliverCall}

Reversed(c) == [c EXCEPT !.line = Line(c.line.p2, c.line.p1)]

ReversedCalls == {Reversed(c) : c \in MainCalls \cup EdgeCalls}

Calls == GridCalls \cup MainCalls \cup EdgeCalls \cup ReversedCalls

(***************************************************************************)
(* The state machine.  line, outcode1, outcode2 are the locals of          *)
(* cohen_sutherland_clip, window its argument, pc its position, result     *)
(* what it returned.  input is the call's argument, steps the number of    *)
(* endpoint replacements of the call (a call is followed for MaxSteps of   *)
(* them), call the number of the call and first the result of call 1.      *)
(***************************************************************************)
VARIABLES line, window, outcode1, outcode2, pc, result, steps, input, call, first

vars == <<line, window, outcode1, outcode2, pc, result, steps, input, call, first>>

Pending == [tag |-> "Pending"]

Loc == [line |-> line, outcode1 |-> outcode1, outcode2 |-> outcode2]

Store(st) ==
    /\ line' = st.line
    /\ outcode1' = st.outcode1
    /\ outcode2' = st.outcode2

\* the entry of cohen_sutherland_clip(c.line, &c.window)
Enter(c) ==
    /\ input = c.line
    /\ window = c.window
    /\ line = c.line
    /\ outcode1 = compute_outcode(c.line.p1, c.window)
    /\ outcode2 = compute_outcode(c.line.p2, c.window)
    /\ pc = "loop"
    /\ result = Pending
    /\ steps = 0
    /\ call = 1
    /\ first = Pending

Init == \E c \in Calls : Enter(c)

TrivialAccept ==
    /\ pc = "loop"
    /\ IsTrivialAccept(Loc)
    /\ result' = Some(line)
    /\ pc' = "returned"
    /\ UNCHANGED <<line, window, outcode1, outcode2, steps, input, call, first>>

TrivialReject ==
    /\ pc = "loop"
    /\ IsTrivialReject(Loc)
    /\ result' = None
    /\ pc' = "returned"
    /\ UNCHANGED <<line, window, outcode1, outcode2, steps, input, call, first>>

PotentialClip ==
    /\ pc = "loop"
    /\ IsPotentialClip(Loc)
    /\ steps < MaxSteps
    /\ Store(ClipStep(Loc, window))
    /\ steps' = steps + 1
    /\ UNCHANGED <<window, pc, result, input, call, first>>

\* the caller clips the segment it got back against the same window
Reclip ==
    /\ pc = "returned"
    /\ call = 1
    /\ result.tag = "Some"
    /\ first' = result
    /\ call' = 2
    /\ input' = result.line
    /\ line' = result.line
    /\ outcode1' = compute_outcode(result.line.p1, window)
    /\ outcode2' = compute_outcode(result.line.p2, window)
    /\ pc' = "loop"
    /\ result' = Pending
    /\ steps' = 0
    /\ UNCHANGED window

Next == TrivialAccept \/ TrivialReject \/ PotentialClip \/ Reclip

Spec == Init /\ [][Next]_vars

(***************************************************************************)
(* The geometric reference: exact arithmetic on finite values (no          *)
(* rounding, any number of significand bits) and the part of a segment     *)
(* inside a window, by the parameter t of p1 + t * (p2 - p1), 0 <= t <= 1. *)
(***************************************************************************)
XAddOrdered(sa, sb, x, y, e, c) ==
    Canon(IF sa = sb THEN sa ELSE IF c = 0 THEN 0 ELSE IF c > 0 THEN sa ELSE sb,
          IF sa = sb THEN NatAdd(x, y) ELSE IF c >= 0 THEN NatSub(x, y) ELSE NatSub(y, x),
          e)

XAddAligned(sa, sb, x, y, e) == XAddOrdered(sa, sb, x, y, e, NatCmp(x, y))

XAddAt(a, b, e) == XAddAligned(a.s, b.s, NatShl(a.m, a.e - e), NatShl(b.m, b.e - e), e)

XAdd(a, b) ==
    IF IsZero(a) THEN b
    ELSE IF IsZero(b) THEN a
    ELSE XAddAt(a, b, IF a.e <= b.e THEN a.e ELSE b.e)

XSub(a, b) == XAdd(a, FNeg(b))

XMul(a, b) ==
    IF IsZero(a) \/ IsZero(b) THEN Zero(0)
    ELSE Canon(Xor(a.s, b.s), NatMul(a.m, b.m), a.e + b.e)

\* a ratio n / d with d > 0
Ratio(n, d) == [n |-> n, d |-> d]
RatioLt(p, q) == FLt(XMul(p.n, q.d), XMul(q.n, p.d))
RatioLe(p, q) == FLe(XMul(p.n, q.d), XMul(q.n, p.d))

\* the t from which, and up to which, a + t * d is within lo..hi
LowerT(a, d, lo, hi) ==
    IF FGt(d, F(0)) THEN {Ratio(XSub(lo, a), d)}
    ELSE IF FLt(d, F(0)) THEN {Ratio(XSub(a, hi), FNeg(d))}
    ELSE {}

UpperT(a, d, lo, hi) ==
    IF FGt(d, F(0)) THEN {Ratio(XSub(hi, a), d)}
    ELSE IF FLt(d, F(0)) THEN {Ratio(XSub(a, lo), FNeg(d))}
    ELSE {}

XDx(l) == XSub(l.p2.x, l.p1.x)
XDy(l) == XSub(l.p2.y, l.p1.y)

WindowLower(l, w) ==
    LowerT(l.p1.x, XDx(l), w.x_min, w.x_max) \cup LowerT(l.p1.y, XDy(l), w.y_min, w.y_max)
WindowUpper(l, w) ==
    UpperT(l.p1.x, XDx(l), w.x_min, w.x_max) \cup UpperT(l.p1.y, XDy(l), w.y_min, w.y_max)

Lower(l, w) == {Ratio(F(0), F(1))} \cup WindowLower(l, w)
Upper(l, w) == {Ratio(F(1), F(1))} \cup WindowUpper(l, w)

\* a coordinate that does not move is within, or strictly within, its bounds
FixedWithin(a, d, lo, hi) == IsZero(d) => FLe(lo, a) /\ FLe(a, hi)
FixedStrictlyWithin(a, d, lo, hi) == IsZero(d) => FLt(lo, a) /\ FLt(a, hi)

\* the segment has a point in the closed window
Visible(l, w) ==
    /\ FixedWithin(l.p1.x, XDx(l), w.x_min, w.x_max)
    /\ FixedWithin(l.p1.y, XDy(l), w.y_min, w.y_max)
    /\ \A p \in Lower(l, w) : \A q \in Upper(l, w) : RatioLe(p, q)

\* the segment has a point with both coordinates strictly inside the window
HasStrictlyInsidePoint(l, w) ==
    /\ FixedStrictlyWithin(l.p1.x, XDx(l), w.x_min, w.x_max)
    /\ FixedStrictlyWithin(l.p1.y, XDy(l), w.y_min, w.y_max)
    /\ \A p \in WindowLower(l, w) :
          /\ RatioLt(p, Ratio(F(1), F(1)))
          /\ \A q \in WindowUpper(l, w) : RatioLt(p, q)
    /\ \A q \in WindowUpper(l, w) : RatioLt(Ratio(F(0), F(1)), q)

\* where the segment enters and leaves the window
EnterT(l, w) == CHOOSE p \in Lower(l, w) : \A q \in Lower(l, w) : RatioLe(q, p)
LeaveT(l, w) == CHOOSE p \in Upper(l, w) : \A q \in Upper(l, w) : RatioLe(p, q)

\* v = a + t * d exactly
CoordAt(v, a, d, t) == IsFinite(v) /\ FEq(XMul(v, t.d), XAdd(XMul(a, t.d), XMul(t.n, d)))

\* p is the point of l at t
PointAt(p, l, t) == CoordAt(p.x, l.p1.x, XDx(l), t) /\ CoordAt(p.y, l.p1.y, XDy(l), t)

\* r is the exact clip of l: None when nothing is visible, otherwise the
\* visible part with its ends in the order of l
IsExactClip(r, l, w) ==
    IF Visible(l, w)
    THEN r.tag = "Some" /\ PointAt(r.line.p1, l, EnterT(l, w))
                        /\ PointAt(r.line.p2, l, LeaveT(l, w))
    ELSE r = None

(***************************************************************************)
(* Variants of the algorithm: another boundary priority order (a           *)
(* permutation of the four bits) and another endpoint preference.          *)
(***************************************************************************)
AllBits == {TOP, BOTTOM, RIGHT, LEFT}
Orders == {o \in [1..4 -> AllBits] : \A i \in 1..4 : \A j \in 1..4 : o[i] = o[j] => i = j}
Preferences == {1, 2}

VariantAccept(st) == st.outcode1 = INSIDE /\ st.outcode2 = INSIDE
VariantReject(st) == BitAnd(st.outcode1, st.outcode2) # INSIDE

\* the endpoint the variant clips: the preferred one when it is outside
VariantEndpoint(st, pref) ==
    IF pref = 1 THEN (IF st.outcode1 # INSIDE THEN 1 ELSE 2)
    ELSE (IF st.outcode2 # INSIDE THEN 2 ELSE 1)

\* the first bit of code in the variant's order
VariantBoundary(code, order) ==
    order[CHOOSE i \in 1..4 :
              BitAnd(code, order[i]) # 0 /\ \A j \in 1..(i - 1) : BitAnd(code, order[j]) = 0]

VariantReplace(st, w, k, new_p) ==
    IF k = 1
    THEN [line |-> [st.line EXCEPT !.p1 = new_p],
          outcode1 |-> compute_outcode(new_p, w), outcode2 |-> st.outcode2]
    ELSE [line |-> [st.line EXCEPT !.p2 = new_p],
          outcode1 |-> st.outcode1, outcode2 |-> compute_outcode(new_p, w)]

VariantClipAt(st, w, order, k) ==
    VariantReplace(st, w, k,
        Intersection(st.line, w,
            VariantBoundary(IF k = 1 THEN st.outcode1 ELSE st.outcode2, order)))

VariantStep(st, w, order, pref) == VariantClipAt(st, w, order, VariantEndpoint(st, pref))

RECURSIVE VariantLoop(_, _, _, _, _)
VariantLoop(st, w, order, pref, fuel) ==
    IF VariantAccept(st) THEN Some(st.line)
    ELSE IF VariantReject(st) THEN None
    ELSE IF fuel = 0 THEN Running
    ELSE VariantLoop(VariantStep(st, w, order, pref), w, order, pref, fuel - 1)

VariantClip(l, w, order, pref) == VariantLoop(Entry(l, w), w, order, pref, MaxSteps)

(***************************************************************************)
(* What the properties speak of.                                           *)
(***************************************************************************)
WellFormed(w) ==
    /\ IsFinite(w.x_min) /\ IsFinite(w.y_min) /\ IsFinite(w.x_max) /\ IsFinite(w.y_max)
    /\ FLe(w.x_min, w.x_max)
    /\ FLe(w.y_min, w.y_max)

FinitePoint(p) == IsFinite(p.x) /\ IsFinite(p.y)
FiniteLine(l) == FinitePoint(l.p1) /\ FinitePoint(l.p2)

\* x_min <= x <= x_max and y_min <= y <= y_max
Contained(p, w) ==
    /\ FLe(w.x_min, p.x) /\ FLe(p.x, w.x_max)
    /\ FLe(w.y_min, p.y) /\ FLe(p.y, w.y_max)

\* the same geometric point
SamePoint(p, q) == FEq(p.x, q.x) /\ FEq(p.y, q.y)

\* the first call has returned
Returned == pc = "returned" /\ call = 1

\* a refinement step: the loop goes round
IsStep == pc = "loop" /\ pc' = "loop"

\* the divisor of the step about to be taken
Divisor(st) ==
    IF ClipBoundary(OutcodeToClip(st)) \in {TOP, BOTTOM} THEN Dy(st.line) ELSE Dx(st.line)

\* the bits of AllBits not in code
BitsNotIn(code) == TOP + BOTTOM + RIGHT + LEFT - code

MainLine(x1, y1, x2, y2) == Line(Point(F(x1), F(y1)), Point(F(x2), F(y2)))

(***************************************************************************)
(* The properties.                                                         *)
(***************************************************************************)

\* C1 Containment: for a segment with finite coordinates and a well-formed
\* window, whenever the call returns Some(line), both returned endpoints
\* satisfy x_min <= x <= x_max and y_min <= y <= y_max.
C1_Containment ==
    Returned /\ result.tag = "Some" /\ WellFormed(window) /\ FiniteLine(input)
        => Contained(result.line.p1, window) /\ Contained(result.line.p2, window)

\* C2 Conservativeness: if some point of the original segment has both
\* coordinates strictly inside the window bounds, the call never returns None.
C2_Conservative ==
    Returned /\ result = None /\ WellFormed(window) /\ FiniteLine(input)
        => ~HasStrictlyInsidePoint(input, window)

\* C3 Exact result, as stated: the call returns None exactly when the segment
\* has no point in the closed window, and otherwise Some(p1', p2') with p1'-p2'
\* the intersection of the segment with the closed window, p1' the end nearer p1.
C3_ExactIntersection ==
    Returned /\ WellFormed(window) /\ FiniteLine(input)
        => IsExactClip(result, input, window)

\* C3 Exact result, amended: a call that returns without a refinement step
\* returns the exact intersection (the segment itself, or None for a segment
\* with no point in the closed window), and for the window (100,100)-(200,200)
\* the five documented segments give the documented results.
C3_ExactWithoutStepsAndDocumented ==
    /\ Returned /\ steps = 0 => IsExactClip(result, input, window)
    /\ Returned /\ window = MainWindow =>
          /\ input = MainLine(50, 50, 250, 250) => result = Some(MainLine(100, 100, 200, 200))
          /\ input = MainLine(50, 150, 250, 150) => result = Some(MainLine(100, 150, 200, 150))
          /\ input = MainLine(150, 50, 150, 250) => result = Some(MainLine(150, 100, 150, 200))
          /\ input = MainLine(210, 110, 250, 190) => result = None
          /\ input = MainLine(50, 250, 250, 250) => result = None

\* C3 witness: the diagonal (50,50)-(250,250) has been clipped at both ends to
\* (100,100)-(200,200).
C3_Witness ==
    /\ Returned /\ steps = 2
    /\ input = MainLine(50, 50, 250, 250)
    /\ result = Some(MainLine(100, 100, 200, 200))

\* C4 Bounded termination: the loop reaches trivial accept or trivial reject
\* after at most 4 refinement steps, and never comes back to a loop state it
\* has left (no input makes it loop forever).
C4_AtMostFourSteps ==
    /\ steps <= 4
    /\ pc = "loop" /\ IsPotentialClip(Loc)
           => LET next == ClipStep(Loc, window)
              IN  ~(IsPotentialClip(next) /\ ClipStep(next, window) = Loc)

\* C5 Symmetry: clip(p1,p2) is None iff clip(p2,p1) is None, and when both are
\* Some the result of clip(p2,p1) is the result of clip(p1,p2) with its two
\* endpoints swapped.
C5_Symmetry ==
    Returned /\ WellFormed(window) /\ FiniteLine(input)
        => LET back == cohen_sutherland_clip(Line(input.p2, input.p1), window, MaxSteps)
           IN  /\ result = None <=> back = None
               /\ result.tag = "Some" /\ back.tag = "Some"
                      => /\ SamePoint(back.line.p1, result.line.p2)
                         /\ SamePoint(back.line.p2, result.line.p1)

\* C6 Idempotence: clipping the segment a call returned against the same
\* window returns that very segment with zero refinement steps; a segment whose
\* two endpoints are inside or on the boundary, a zero-length one included, is
\* returned unchanged with zero refinement steps.
C6_Idempotent ==
    /\ call = 2 => steps = 0 /\ (pc = "returned" => result = first)
    /\ call = 1 /\ Contained(input.p1, window) /\ Contained(input.p2, window)
           => steps = 0 /\ (pc = "returned" => result = Some(input))

\* C6 witness: the segment (100,100)-(200,200) that the first call cut out of
\* (50,50)-(250,250) has been clipped again.
C6_Witness ==
    /\ call = 2 /\ pc = "returned"
    /\ window = MainWindow
    /\ first = Some(MainLine(100, 100, 200, 200))
    /\ result = first

\* C7 No division by zero: at every refinement step that is reached, dy # 0
\* when the step clips against TOP or BOTTOM and dx # 0 when it clips against
\* RIGHT or LEFT, dx and dy taken from the current endpoints; a segment
\* parallel to the boundary it would be clipped against is rejected instead.
C7_NoDivisionByZero ==
    /\ pc = "loop" /\ IsPotentialClip(Loc) => ~FEq(Divisor(Loc), F(0))
    /\ pc = "loop" /\ ~IsTrivialAccept(Loc) /\ FEq(Divisor(Loc), F(0))
           => BitAnd(outcode1, outcode2) # INSIDE

\* C7 witness: a vertical segment (dx = 0), one end already clipped, is about
\* to be clipped against TOP or BOTTOM.
C7_Witness ==
    /\ pc = "loop" /\ IsPotentialClip(Loc) /\ steps = 1
    /\ IsZero(Dx(line))
    /\ ClipBoundary(OutcodeToClip(Loc)) \in {TOP, BOTTOM}

\* C8 as stated: at every refinement step the re-computed outcode of the
\* replaced endpoint has the bit of the boundary just clipped against cleared
\* and contains no bit that was not set in that endpoint's outcode before.
C8_NoNewViolation ==
    [][IsStep =>
          LET new == IF outcode1 # INSIDE THEN outcode1' ELSE outcode2'
          IN  /\ BitAnd(new, ClipBoundary(OutcodeToClip(Loc))) = 0
              /\ BitAnd(new, BitsNotIn(OutcodeToClip(Loc))) = 0]_vars

\* C8 amended: at every refinement step the re-computed outcode of the
\* replaced endpoint has the bit of the boundary just clipped against cleared
\* (it may contain a bit that was not set before the step).
C8_ClearsClippedBit ==
    [][IsStep =>
          LET new == IF outcode1 # INSIDE THEN outcode1' ELSE outcode2'
          IN  BitAnd(new, ClipBoundary(OutcodeToClip(Loc))) = 0]_vars

\* C8 witness: the first step replaced endpoint 1, and its new outcode has a
\* bit that its outcode on entry did not have.
C8_Witness ==
    /\ pc = "loop" /\ call = 1 /\ steps = 1
    /\ compute_outcode(input.p1, window) # INSIDE
    /\ BitAnd(outcode1, BitsNotIn(compute_outcode(input.p1, window))) # 0

\* C9 Order independence, as stated: a variant with any other endpoint
\* preference or any other priority order returns the same accept/reject
\* outcome and the same final endpoints as the call.
C9_OrderIndependent ==
    Returned /\ WellFormed(window) /\ FiniteLine(input)
        => \A order \in Orders : \A pref \in Preferences :
               VariantClip(input, window, order, pref) = result

\* the order of the source, as a variant's order
SourceOrder == <<TOP, BOTTOM, RIGHT, LEFT>>

\* every variant returns what the call returned
AllVariantsAgree ==
    \A order \in Orders : \A pref \in Preferences :
        VariantClip(input, window, order, pref) = result

\* C9 amended: every variant returns the same outcome and the same endpoints
\* as the call when the call returns without a refinement step, and, for the
\* window (100,100)-(200,200), on each of the seven segments of main in either
\* direction, clipped ones included.  Otherwise the choice matters, the outcome
\* included: for the window (1,1)-(2,2) and the segment from (3,4) to
\* (1 - 2^-52, -2 + 2^-52) the call returns None, and the variant that keeps
\* the source's order but prefers endpoint 2 returns Some((2,1),(2,1)).
C9_AgreeOnDocumentedNotInGeneral ==
    /\ Returned /\ steps = 0 => AllVariantsAgree
    /\ Returned /\ window = MainWindow => AllVariantsAgree
    /\ Returned /\ input = SliverCall.line /\ window = SliverCall.window
           => /\ result = None
              /\ VariantClip(input, window, SourceOrder, 2)
                     = Some(MainLine(2, 1, 2, 1))

\* C9 witness: (250,250)-(50,50), both ends outside past two boundaries each,
\* has been clipped in two steps to (200,200)-(100,100), and the variant with
\* the opposite order and the other endpoint preference returns the same.
C9_Witness ==
    /\ Returned /\ steps = 2
    /\ input = MainLine(250, 250, 50, 50)
    /\ result = Some(MainLine(200, 200, 100, 100))
    /\ VariantClip(input, window, <<LEFT, RIGHT, BOTTOM, TOP>>, 2) = result

\* at every loop head each stored outcode is compute_outcode of the current endpoint
C10_StoredOutcodesCurrent ==
    pc = "loop" => /\ outcode1 = compute_outcode(line.p1, window)
                   /\ outcode2 = compute_outcode(line.p2, window)

\* an endpoint inside the window on entry is returned with its original coordinates
C10_InsideEndpointKept ==
    pc = "returned" /\ result.tag = "Some" =>
        /\ compute_outcode(input.p1, window) = INSIDE => result.line.p1 = input.p1
        /\ compute_outcode(input.p2, window) = INSIDE => result.line.p2 = input.p2

\* a step replaces and re-classifies endpoint 1 if its outcode is nonzero and
\* endpoint 2 otherwise, and leaves the other endpoint, its outcode and the window
C10_StepFrame ==
    IsStep =>
        /\ window' = window
        /\ IF outcode1 # INSIDE
           THEN /\ line'.p2 = line.p2
                /\ outcode2' = outcode2
                /\ outcode1' = compute_outcode(line'.p1, window)
           ELSE /\ line'.p1 = line.p1
                /\ outcode1' = outcode1
                /\ outcode2' = compute_outcode(line'.p2, window)

\* C10 Frame of a refinement step: a step replaces endpoint 1 if its outcode
\* is nonzero and endpoint 2 otherwise, and re-classifies that endpoint; the
\* other endpoint, its stored outcode and the window are unchanged; at every
\* loop head each stored outcode is compute_outcode of the current endpoint;
\* an endpoint inside the window on entry is returned as it was.
C10_Frame ==
    /\ [](C10_StoredOutcodesCurrent /\ C10_InsideEndpointKept)
    /\ [][C10_StepFrame]_vars

\* C10 witness: (150,150)-(250,250) has come back as (150,150)-(200,200).
C10_Witness ==
    /\ Returned
    /\ input = MainLine(150, 150, 250, 250)
    /\ result = Some(MainLine(150, 150, 200, 200))

====
